---- MODULE Spec2Model ----
(***************************************************************************)
(* The article generator: the generation endpoint                          *)
(* (src/src/app/api/generate/route.ts, POST) and the form controller       *)
(* (src/src/app/page.tsx, Home).                                           *)
(*                                                                         *)
(* A JavaScript string is a sequence of one-character strings, so that     *)
(* trim(), length and includes() are computed on the characters.           *)
(***************************************************************************)
EXTENDS Integers, Sequences, FiniteSets, TLC

VARIABLES
    pc,             \* position of the POST invocation: "start", "awaiting", "done"
    body,           \* the request body as request.json() will see it
    apiKey,         \* process.env.ANTHROPIC_API_KEY
    providerCalls,  \* number of anthropic.messages.create calls made
    providerResult, \* how the provider call settled
    thrown,         \* the exception the catch block received, and where it was raised
    logged,         \* what console.error was given
    response,       \* the NextResponse returned
    peer,           \* a second POST invocation in progress in the same process
    formData,         \* Home: the form fields topic, keyPoints, tone
    generatedArticle, \* Home: the draft
    isLoading,        \* Home
    error,            \* Home: the message shown, <<>> when none
    lastGenerated,    \* Home: Date.now() of the last successful generation, 0 at first
    copySuccess,      \* Home
    downloadSuccess,  \* Home
    now,              \* Date.now()
    inFlight,         \* the request bodies handed to fetch and not settled yet
    fetched,          \* what the last settled fetch gave handleSubmit
    clipboardPending, \* the texts of the writeText calls not settled yet
    clipboard,        \* the system clipboard
    copyTimers,       \* due times of the pending setTimeout callbacks of copyToClipboard
    downloadTimers,   \* due times of the pending setTimeout callbacks of downloadMarkdown
    download          \* the file the browser was last told to save

endpointVars ==
    <<pc, body, apiKey, providerCalls, providerResult, thrown, logged, response, peer>>

formVars ==
    <<formData, generatedArticle, isLoading, error, lastGenerated, copySuccess,
      downloadSuccess, now, inFlight, fetched, clipboardPending, clipboard, copyTimers,
      downloadTimers, download>>

vars == <<endpointVars, formVars>>

----------------------------------------------------------------------------
(* Bounds of the model. *)

\* longest run of whitespace put before and after a text field
MaxPad == 1
\* number of fragments a failure message is built from
MaxFrags == 2
\* longest content list the provider returns
MaxBlocks == 2
\* Date.now() when the page is loaded, in ms
StartTime == 5000
\* ms by which one step of the clock advances Date.now()
TickMs == 1000
\* number of clock steps followed
MaxTicks == 4
\* number of writeText calls that may be unsettled at once
MaxPending == 1
\* longest topic made of every combination of characters
MaxSlugLen == 1

----------------------------------------------------------------------------
(* JavaScript strings. *)

WhiteSpace == {" ", "\t", "\n"}

RECURSIVE TrimStart(_)
TrimStart(s) ==
    IF s # <<>> /\ Head(s) \in WhiteSpace THEN TrimStart(Tail(s)) ELSE s

RECURSIVE TrimEnd(_)
TrimEnd(s) ==
    IF s # <<>> /\ s[Len(s)] \in WhiteSpace
    THEN TrimEnd(SubSeq(s, 1, Len(s) - 1))
    ELSE s

\* String.prototype.trim
Trim(s) == TrimEnd(TrimStart(s))

\* String.prototype.includes
Includes(s, sub) ==
    \E i \in 0..(Len(s) - Len(sub)) : SubSeq(s, i + 1, i + Len(sub)) = sub

----------------------------------------------------------------------------
(* JavaScript values as they come out of a JSON body.  kind "array" is the *)
(* one-element array [str].                                                *)

Undefined == [kind |-> "undefined", str |-> <<>>, num |-> 0]
Null      == [kind |-> "null", str |-> <<>>, num |-> 0]
Num(n)    == [kind |-> "number", str |-> <<>>, num |-> n]
Bool(b)   == [kind |-> "boolean", str |-> <<>>, num |-> IF b THEN 1 ELSE 0]
Str(s)    == [kind |-> "string", str |-> s, num |-> 0]
Arr(s)    == [kind |-> "array", str |-> s, num |-> 0]

\* typeof v
TypeOf(v) == IF v.kind \in {"null", "array"} THEN "object" ELSE v.kind

\* !v is false
Truthy(v) ==
    CASE v.kind \in {"undefined", "null"} -> FALSE
      [] v.kind \in {"number", "boolean"} -> v.num # 0
      [] v.kind = "string" -> v.str # <<>>
      [] OTHER -> TRUE

----------------------------------------------------------------------------
(* The literals of route.ts. *)

MaxTopicLen == 200
MaxKeyPointsLen == 2000

Tones ==
    << <<"p", "r", "o", "f", "e", "s", "s", "i", "o", "n", "a", "l">>, <<"c", "a", "s", "u", "a", "l">>, <<"a", "c", "a", "d", "e", "m", "i", "c">>, <<"c", "r", "e", "a", "t", "i", "v", "e">>, <<"c", "o", "n", "v", "e", "r", "s", "a", "t", "i", "o", "n", "a", "l">> >>

\* 'Topic is required and must be a non-empty string'
ErrTopicRequired == <<"T", "o", "p", "i", "c", " ", "i", "s", " ", "r", "e", "q", "u", "i", "r", "e",
       "d", " ", "a", "n", "d", " ", "m", "u", "s", "t", " ", "b", "e", " ", "a", " ",
       "n", "o", "n", "-", "e", "m", "p", "t", "y", " ", "s", "t", "r", "i", "n", "g">>
\* 'Topic must be 200 characters or less'
ErrTopicTooLong == <<"T", "o", "p", "i", "c", " ", "m", "u", "s", "t", " ", "b", "e", " ", "2", "0",
       "0", " ", "c", "h", "a", "r", "a", "c", "t", "e", "r", "s", " ", "o", "r", " ",
       "l", "e", "s", "s">>
\* 'Key points are required and must be a non-empty string'
ErrKeyPointsRequired == <<"K", "e", "y", " ", "p", "o", "i", "n", "t", "s", " ", "a", "r", "e", " ", "r",
       "e", "q", "u", "i", "r", "e", "d", " ", "a", "n", "d", " ", "m", "u", "s", "t",
       " ", "b", "e", " ", "a", " ", "n", "o", "n", "-", "e", "m", "p", "t", "y", " ",
       "s", "t", "r", "i", "n", "g">>
\* 'Key points must be 2000 characters or less'
ErrKeyPointsTooLong == <<"K", "e", "y", " ", "p", "o", "i", "n", "t", "s", " ", "m", "u", "s", "t", " ",
       "b", "e", " ", "2", "0", "0", "0", " ", "c", "h", "a", "r", "a", "c", "t", "e",
       "r", "s", " ", "o", "r", " ", "l", "e", "s", "s">>
\* 'Tone must be one of: professional, casual, academic, creative, conversational'
ErrTone == <<"T", "o", "n", "e", " ", "m", "u", "s", "t", " ", "b", "e", " ", "o", "n", "e",
       " ", "o", "f", ":", " ", "p", "r", "o", "f", "e", "s", "s", "i", "o", "n", "a",
       "l", ",", " ", "c", "a", "s", "u", "a", "l", ",", " ", "a", "c", "a", "d", "e",
       "m", "i", "c", ",", " ", "c", "r", "e", "a", "t", "i", "v", "e", ",", " ", "c",
       "o", "n", "v", "e", "r", "s", "a", "t", "i", "o", "n", "a", "l">>
\* 'ANTHROPIC_API_KEY is not configured. Please add it to your environment variables.'
ErrNotConfigured == <<"A", "N", "T", "H", "R", "O", "P", "I", "C", "_", "A", "P", "I", "_", "K", "E",
       "Y", " ", "i", "s", " ", "n", "o", "t", " ", "c", "o", "n", "f", "i", "g", "u",
       "r", "e", "d", ".", " ", "P", "l", "e", "a", "s", "e", " ", "a", "d", "d", " ",
       "i", "t", " ", "t", "o", " ", "y", "o", "u", "r", " ", "e", "n", "v", "i", "r",
       "o", "n", "m", "e", "n", "t", " ", "v", "a", "r", "i", "a", "b", "l", "e", "s",
       ".">>
\* 'Invalid Anthropic API key. Please check your ANTHROPIC_API_KEY environment variable.'
ErrInvalidKey == <<"I", "n", "v", "a", "l", "i", "d", " ", "A", "n", "t", "h", "r", "o", "p", "i",
       "c", " ", "A", "P", "I", " ", "k", "e", "y", ".", " ", "P", "l", "e", "a", "s",
       "e", " ", "c", "h", "e", "c", "k", " ", "y", "o", "u", "r", " ", "A", "N", "T",
       "H", "R", "O", "P", "I", "C", "_", "A", "P", "I", "_", "K", "E", "Y", " ", "e",
       "n", "v", "i", "r", "o", "n", "m", "e", "n", "t", " ", "v", "a", "r", "i", "a",
       "b", "l", "e", ".">>
\* 'Rate limit exceeded. Please wait a moment and try again.'
ErrRateLimit == <<"R", "a", "t", "e", " ", "l", "i", "m", "i", "t", " ", "e", "x", "c", "e", "e",
       "d", "e", "d", ".", " ", "P", "l", "e", "a", "s", "e", " ", "w", "a", "i", "t",
       " ", "a", " ", "m", "o", "m", "e", "n", "t", " ", "a", "n", "d", " ", "t", "r",
       "y", " ", "a", "g", "a", "i", "n", ".">>
\* 'Request timeout. The AI took too long to respond. Please try again.'
ErrTimeout == <<"R", "e", "q", "u", "e", "s", "t", " ", "t", "i", "m", "e", "o", "u", "t", ".",
       " ", "T", "h", "e", " ", "A", "I", " ", "t", "o", "o", "k", " ", "t", "o", "o",
       " ", "l", "o", "n", "g", " ", "t", "o", " ", "r", "e", "s", "p", "o", "n", "d",
       ".", " ", "P", "l", "e", "a", "s", "e", " ", "t", "r", "y", " ", "a", "g", "a",
       "i", "n", ".">>
\* 'Failed to generate article. Please try again later.'
ErrGeneric == <<"F", "a", "i", "l", "e", "d", " ", "t", "o", " ", "g", "e", "n", "e", "r", "a",
       "t", "e", " ", "a", "r", "t", "i", "c", "l", "e", ".", " ", "P", "l", "e", "a",
       "s", "e", " ", "t", "r", "y", " ", "a", "g", "a", "i", "n", " ", "l", "a", "t",
       "e", "r", ".">>
\* 'Failed to generate article content'
FallbackArticle == <<"F", "a", "i", "l", "e", "d", " ", "t", "o", " ", "g", "e", "n", "e", "r", "a",
       "t", "e", " ", "a", "r", "t", "i", "c", "l", "e", " ", "c", "o", "n", "t", "e",
       "n", "t">>

\* NextResponse.json({ error }, { status }) and NextResponse.json({ article }, { status })
ErrorResponse(status, message) == [status |-> status, kind |-> "error", text |-> message]
ArticleResponse(status, article) == [status |-> status, kind |-> "article", text |-> article]
NoResponse == [status |-> 0, kind |-> "none", text |-> <<>>]

----------------------------------------------------------------------------
(* Input validation, lines 30-72. *)

\* !topic || typeof topic !== 'string' || topic.trim().length === 0
TopicMissing(topic) ==
    \/ ~Truthy(topic)
    \/ TypeOf(topic) # "string"
    \/ Len(Trim(topic.str)) = 0

\* topic.trim().length > 200
TopicTooLong(topic) == Len(Trim(topic.str)) > MaxTopicLen

\* the same test without the trimmed-length part
KeyPointsMissing_NoTrim(keyPoints) ==
    \/ ~Truthy(keyPoints)
    \/ TypeOf(keyPoints) # "string"

\* !keyPoints || typeof keyPoints !== 'string' || keyPoints.trim().length === 0
KeyPointsMissing(keyPoints) ==
    \/ ~Truthy(keyPoints)
    \/ TypeOf(keyPoints) # "string"
    \/ Len(Trim(keyPoints.str)) = 0

\* keyPoints.trim().length > 2000
KeyPointsTooLong(keyPoints) == Len(Trim(keyPoints.str)) > MaxKeyPointsLen

\* Array.prototype.includes compares with SameValueZero: only a string equals a string
SameValueZero(v, s) == v.kind = "string" /\ v.str = s

\* the == comparison: a one-element array is converted to its element's string
LooseEquals(v, s) == v.kind \in {"string", "array"} /\ v.str = s

\* the tone test written with == instead of includes
ToneInvalid_Loose(tone) ==
    \/ ~Truthy(tone)
    \/ ~ \E i \in 1..Len(Tones) : LooseEquals(tone, Tones[i])

\* !tone || ![...].includes(tone)
ToneInvalid(tone) ==
    \/ ~Truthy(tone)
    \/ ~ \E i \in 1..Len(Tones) : SameValueZero(tone, Tones[i])

\* !process.env.ANTHROPIC_API_KEY
KeyMissing(key) == ~Truthy(key)

\* lines 30-72 with the credential test moved in front of the input tests
CheckRequest_KeyFirst(topic, keyPoints, tone, key) ==
    IF KeyMissing(key) THEN ErrorResponse(500, ErrNotConfigured)
    ELSE IF TopicMissing(topic) THEN ErrorResponse(400, ErrTopicRequired)
    ELSE IF TopicTooLong(topic) THEN ErrorResponse(400, ErrTopicTooLong)
    ELSE IF KeyPointsMissing(keyPoints) THEN ErrorResponse(400, ErrKeyPointsRequired)
    ELSE IF KeyPointsTooLong(keyPoints) THEN ErrorResponse(400, ErrKeyPointsTooLong)
    ELSE IF ToneInvalid(tone) THEN ErrorResponse(400, ErrTone)
    ELSE NoResponse

\* lines 30-72: the early return taken, or NoResponse when the handler goes on
CheckRequest(topic, keyPoints, tone, key) ==
    IF TopicMissing(topic) THEN ErrorResponse(400, ErrTopicRequired)
    ELSE IF TopicTooLong(topic) THEN ErrorResponse(400, ErrTopicTooLong)
    ELSE IF KeyPointsMissing(keyPoints) THEN ErrorResponse(400, ErrKeyPointsRequired)
    ELSE IF KeyPointsTooLong(keyPoints) THEN ErrorResponse(400, ErrKeyPointsTooLong)
    ELSE IF ToneInvalid(tone) THEN ErrorResponse(400, ErrTone)
    ELSE IF KeyMissing(key) THEN ErrorResponse(500, ErrNotConfigured)
    ELSE NoResponse

----------------------------------------------------------------------------
(* The success path, lines 107-116, and the catch block, lines 118-150. *)

\* message.content[0] is undefined for an empty list: reading .type throws
ExtractThrows(content) == Len(content) = 0

\* message.content[0].type === 'text' ? message.content[0].text : '...'
ArticleText(content) ==
    IF content[1].type = "text" THEN content[1].text ELSE FallbackArticle

\* the catch block with the rate-limit test in front of the credential test
MapError_RateLimitFirst(caught) ==
    IF caught.isError /\ (Includes(caught.message, <<"4", "2", "9">>) \/ Includes(caught.message, <<"r", "a", "t", "e", " ", "l", "i", "m", "i", "t">>))
    THEN ErrorResponse(429, ErrRateLimit)
    ELSE IF caught.isError /\ (Includes(caught.message, <<"4", "0", "1">>) \/ Includes(caught.message, <<"a", "u", "t", "h", "e", "n", "t", "i", "c", "a", "t", "i", "o", "n">>))
    THEN ErrorResponse(500, ErrInvalidKey)
    ELSE IF caught.isError /\ Includes(caught.message, <<"t", "i", "m", "e", "o", "u", "t">>)
    THEN ErrorResponse(504, ErrTimeout)
    ELSE ErrorResponse(500, ErrGeneric)

\* the catch block with the timeout test in front of the rate-limit test
MapError_TimeoutFirst(caught) ==
    IF caught.isError /\ (Includes(caught.message, <<"4", "0", "1">>) \/ Includes(caught.message, <<"a", "u", "t", "h", "e", "n", "t", "i", "c", "a", "t", "i", "o", "n">>))
    THEN ErrorResponse(500, ErrInvalidKey)
    ELSE IF caught.isError /\ Includes(caught.message, <<"t", "i", "m", "e", "o", "u", "t">>)
    THEN ErrorResponse(504, ErrTimeout)
    ELSE IF caught.isError /\ (Includes(caught.message, <<"4", "2", "9">>) \/ Includes(caught.message, <<"r", "a", "t", "e", " ", "l", "i", "m", "i", "t">>))
    THEN ErrorResponse(429, ErrRateLimit)
    ELSE ErrorResponse(500, ErrGeneric)

\* the catch block with the exception's own message sent in the generic case
MapError_RawMessage(caught) ==
    IF caught.isError /\ (Includes(caught.message, <<"4", "0", "1">>) \/ Includes(caught.message, <<"a", "u", "t", "h", "e", "n", "t", "i", "c", "a", "t", "i", "o", "n">>))
    THEN ErrorResponse(500, ErrInvalidKey)
    ELSE IF caught.isError /\ (Includes(caught.message, <<"4", "2", "9">>) \/ Includes(caught.message, <<"r", "a", "t", "e", " ", "l", "i", "m", "i", "t">>))
    THEN ErrorResponse(429, ErrRateLimit)
    ELSE IF caught.isError /\ Includes(caught.message, <<"t", "i", "m", "e", "o", "u", "t">>)
    THEN ErrorResponse(504, ErrTimeout)
    ELSE ErrorResponse(500, caught.message)

\* lines 121-149: the response the catch block returns for a caught exception
MapError(caught) ==
    IF caught.isError /\ (Includes(caught.message, <<"4", "0", "1">>) \/ Includes(caught.message, <<"a", "u", "t", "h", "e", "n", "t", "i", "c", "a", "t", "i", "o", "n">>))
    THEN ErrorResponse(500, ErrInvalidKey)
    ELSE IF caught.isError /\ (Includes(caught.message, <<"4", "2", "9">>) \/ Includes(caught.message, <<"r", "a", "t", "e", " ", "l", "i", "m", "i", "t">>))
    THEN ErrorResponse(429, ErrRateLimit)
    ELSE IF caught.isError /\ Includes(caught.message, <<"t", "i", "m", "e", "o", "u", "t">>)
    THEN ErrorResponse(504, ErrTimeout)
    ELSE ErrorResponse(500, ErrGeneric)

----------------------------------------------------------------------------
(* The exceptions the try block can raise.  All of them are Error objects. *)

\* the engine's SyntaxError for a body that is not JSON quotes the offending text
SyntaxErrorMessage(snippet) ==
    \* Unexpected token 'x', "x<snippet>" is not valid JSON
    <<"U", "n", "e", "x", "p", "e", "c", "t", "e", "d", " ", "t", "o", "k", "e", "n", " ", "'", "x", "'", ",", " ", "\"", "x">> \o snippet \o <<"\"", " ", "i", "s", " ", "n", "o", "t", " ", "v", "a", "l", "i", "d", " ", "J", "S", "O", "N">>

\* the engine's TypeError for const { topic, keyPoints, tone } = null
DestructureErrorMessage ==
    \* "Cannot destructure property 'topic' of 'body' as it is null."
    <<"C", "a", "n", "n", "o", "t", " ", "d", "e", "s", "t", "r", "u", "c", "t", "u",
       "r", "e", " ", "p", "r", "o", "p", "e", "r", "t", "y", " ", "'", "t", "o", "p",
       "i", "c", "'", " ", "o", "f", " ", "'", "b", "o", "d", "y", "'", " ", "a", "s",
       " ", "i", "t", " ", "i", "s", " ", "n", "u", "l", "l", ".">>

\* the engine's TypeError for message.content[0].type on an empty content list
ReadTypeErrorMessage ==
    \* "Cannot read properties of undefined (reading 'type')"
    <<"C", "a", "n", "n", "o", "t", " ", "r", "e", "a", "d", " ", "p", "r", "o", "p",
       "e", "r", "t", "i", "e", "s", " ", "o", "f", " ", "u", "n", "d", "e", "f", "i",
       "n", "e", "d", " ", "(", "r", "e", "a", "d", "i", "n", "g", " ", "'", "t", "y",
       "p", "e", "'", ")">>

Exception(where, message) == [where |-> where, isError |-> TRUE, message |-> message]
NoException == [where |-> "none", isError |-> FALSE, message |-> <<>>]

----------------------------------------------------------------------------
(* The inputs: request bodies, credentials, provider outcomes. *)

Pad(p) == [i \in 1..p |-> IF i % 2 = 1 THEN " " ELSE "\n"]

\* n characters, the first and the last not whitespace, with whitespace inside
Fill(n) ==
    [i \in 1..n |-> IF i = 1 \/ i = n THEN "a" ELSE IF i % 7 = 0 THEN " " ELSE "b"]

Padded(p, n) == Pad(p) \o Fill(n) \o Pad(p)

\* values of a text field around the limit of its trimmed length
TextValues(limit) ==
    {Undefined, Null, Num(0), Num(7), Bool(TRUE), Arr(<<"a">>)}
        \cup {Str(Padded(p, n)) : p \in 0..MaxPad, n \in {0, 1, limit, limit + 1}}

ToneValues ==
    {Str(Tones[i]) : i \in 1..Len(Tones)}
        \cup {Undefined, Null, Num(1), Str(<<>>), Str(<<"P", "r", "o", "f", "e", "s", "s", "i", "o", "n", "a", "l">>), Str(<<"f", "o", "r", "m", "a", "l">>),
              Arr(<<"c", "a", "s", "u", "a", "l">>)}

\* the body text is not JSON; JSON null; a JSON number; a JSON object
Bodies ==
    {[kind |-> k, topic |-> Undefined, keyPoints |-> Undefined, tone |-> Undefined] :
        k \in {"invalid", "null", "number"}}
        \cup {[kind |-> "object", topic |-> t, keyPoints |-> k, tone |-> o] :
                t \in TextValues(MaxTopicLen), k \in TextValues(MaxKeyPointsLen),
                o \in ToneValues}

\* unset, set to the empty string, set
ApiKeys == {Undefined, Str(<<>>), Str(<<"s", "k", "-", "a", "n", "t", "-", "t", "e", "s", "t">>)}

Fragments ==
    {<<"4", "0", "1">>, <<"4", "2", "9">>, <<"a", "u", "t", "h", "e", "n", "t", "i", "c", "a", "t", "i", "o", "n">>, <<"r", "a", "t", "e", " ", "l", "i", "m", "i", "t">>, <<"t", "i", "m", "e", "o", "u", "t">>, <<"T", "i", "m", "e", "o", "u", "t">>, <<"4">>, <<"0", "1">>}

RECURSIVE Concats(_)
Concats(n) ==
    IF n = 0 THEN {<<>>}
    ELSE LET prev == Concats(n - 1)
         IN  prev \cup {m \o f : m \in prev, f \in Fragments}

\* the texts a failure message is drawn from
Messages == Concats(MaxFrags)

ContentBlocks ==
    {[type |-> "text", text |-> <<"#", " ", "A">>], [type |-> "text", text |-> <<"B">>],
     [type |-> "thinking", text |-> <<>>], [type |-> "tool_use", text |-> <<>>]}

ContentLists == UNION {[1..n -> ContentBlocks] : n \in 0..MaxBlocks}

NoResult == [kind |-> "none", content |-> <<>>, message |-> <<>>]

\* no second invocation
NoPeer ==
    [pc |-> "none",
     body |-> [kind |-> "none", topic |-> Undefined, keyPoints |-> Undefined,
               tone |-> Undefined],
     providerResult |-> NoResult, thrown |-> NoException, response |-> NoResponse]

----------------------------------------------------------------------------
(* The state of Home, page.tsx lines 27-37. *)

NoFile == [saved |-> FALSE, name |-> <<>>, content |-> <<>>]
NothingFetched == [status |-> 0, kind |-> "none", text |-> <<>>]

\* the useState initial values; nothing requested, copied or saved
HomeInitial ==
    /\ formData = [topic |-> <<>>, keyPoints |-> <<>>, tone |-> <<"p", "r", "o", "f", "e", "s", "s", "i", "o", "n", "a", "l">>]
    /\ generatedArticle = <<>>
    /\ isLoading = FALSE
    /\ error = <<>>
    /\ lastGenerated = 0
    /\ copySuccess = FALSE
    /\ downloadSuccess = FALSE
    /\ now = StartTime
    /\ inFlight = <<>>
    /\ fetched = NothingFetched
    /\ clipboardPending = <<>>
    /\ clipboard = <<>>
    /\ copyTimers = {}
    /\ downloadTimers = {}
    /\ download = NoFile

----------------------------------------------------------------------------
(* One invocation of POST. *)

Init ==
    /\ HomeInitial
    /\ pc = "start"
    /\ body \in Bodies
    /\ apiKey \in ApiKeys
    /\ providerCalls = 0
    /\ providerResult = NoResult
    /\ thrown = NoException
    /\ logged = <<>>
    /\ response = NoResponse
    /\ peer = NoPeer

\* lines 118-150: log the exception and return the mapped response
Catch(caught) ==
    /\ thrown' = caught
    /\ logged' = Append(logged, caught.message)
    /\ response' = MapError(caught)
    /\ pc' = "done"

\* line 27: request.json() rejects
ParseFails ==
    /\ pc = "start"
    /\ body.kind = "invalid"
    /\ \E snippet \in Messages : Catch(Exception("parse", SyntaxErrorMessage(snippet)))
    /\ UNCHANGED <<body, apiKey, providerCalls, providerResult>>
    /\ UNCHANGED peer
    /\ UNCHANGED formVars

\* lines 27-105: request.json() resolves; destructure, validate, check the
\* credential, and start the provider call
HandleBody ==
    /\ pc = "start"
    /\ body.kind # "invalid"
    /\ IF body.kind = "null"
       THEN /\ Catch(Exception("destructure", DestructureErrorMessage))
            /\ UNCHANGED providerCalls
       ELSE LET early == CheckRequest(body.topic, body.keyPoints, body.tone, apiKey)
            IN  IF early # NoResponse
                THEN /\ response' = early
                     /\ pc' = "done"
                     /\ UNCHANGED <<providerCalls, thrown, logged>>
                ELSE /\ providerCalls' = providerCalls + 1
                     /\ pc' = "awaiting"
                     /\ UNCHANGED <<response, thrown, logged>>
    /\ UNCHANGED <<body, apiKey, providerResult>>
    /\ UNCHANGED peer
    /\ UNCHANGED formVars

\* lines 96-116: the provider call resolves with a content list
ProviderResolves ==
    /\ pc = "awaiting"
    /\ \E content \in ContentLists :
        /\ providerResult' = [kind |-> "resolved", content |-> content, message |-> <<>>]
        /\ IF ExtractThrows(content)
           THEN Catch(Exception("extract", ReadTypeErrorMessage))
           ELSE /\ response' = ArticleResponse(200, ArticleText(content))
                /\ pc' = "done"
                /\ UNCHANGED <<thrown, logged>>
    /\ UNCHANGED <<body, apiKey, providerCalls>>
    /\ UNCHANGED peer
    /\ UNCHANGED formVars

\* lines 96-105, 118-150: the provider call rejects
ProviderRejects ==
    /\ pc = "awaiting"
    /\ \E message \in Messages :
        /\ providerResult' = [kind |-> "rejected", content |-> <<>>, message |-> message]
        /\ Catch(Exception("provider", message))
    /\ UNCHANGED <<body, apiKey, providerCalls>>
    /\ UNCHANGED peer
    /\ UNCHANGED formVars

Next == ParseFails \/ HandleBody \/ ProviderResolves \/ ProviderRejects

Spec == Init /\ [][Next]_vars

----------------------------------------------------------------------------
(* The input rules and the failure table as the specification words them.  *)

\* rule 1: topic present, a string, non-empty after trimming
TopicPresent(b) == b.topic.kind = "string" /\ Len(Trim(b.topic.str)) > 0
\* rule 2: trimmed topic length <= 200
TopicWithinLimit(b) == Len(Trim(b.topic.str)) <= 200
\* rule 3: keyPoints present, a string, non-empty after trimming
KeyPointsPresent(b) == b.keyPoints.kind = "string" /\ Len(Trim(b.keyPoints.str)) > 0
\* rule 4: trimmed keyPoints length <= 2000
KeyPointsWithinLimit(b) == Len(Trim(b.keyPoints.str)) <= 2000
\* rule 5: tone is one of the five enum values
ToneInEnum(b) ==
    /\ b.tone.kind = "string"
    /\ b.tone.str \in {<<"p", "r", "o", "f", "e", "s", "s", "i", "o", "n", "a", "l">>, <<"c", "a", "s", "u", "a", "l">>, <<"a", "c", "a", "d", "e", "m", "i", "c">>, <<"c", "r", "e", "a", "t", "i", "v", "e">>, <<"c", "o", "n", "v", "e", "r", "s", "a", "t", "i", "o", "n", "a", "l">>}

AllRulesPass(b) ==
    /\ b.kind = "object"
    /\ TopicPresent(b) /\ TopicWithinLimit(b)
    /\ KeyPointsPresent(b) /\ KeyPointsWithinLimit(b)
    /\ ToneInEnum(b)

\* the message of the earliest failing rule, <<>> when every rule passes
EarliestFailure(b) ==
    CASE ~TopicPresent(b) -> ErrTopicRequired
      [] TopicPresent(b) /\ ~TopicWithinLimit(b) -> ErrTopicTooLong
      [] TopicPresent(b) /\ TopicWithinLimit(b) /\ ~KeyPointsPresent(b) -> ErrKeyPointsRequired
      [] TopicPresent(b) /\ TopicWithinLimit(b) /\ KeyPointsPresent(b)
            /\ ~KeyPointsWithinLimit(b) -> ErrKeyPointsTooLong
      [] TopicPresent(b) /\ TopicWithinLimit(b) /\ KeyPointsPresent(b)
            /\ KeyPointsWithinLimit(b) /\ ~ToneInEnum(b) -> ErrTone
      [] OTHER -> <<>>

\* a credential is configured
Configured == apiKey.kind = "string" /\ apiKey.str # <<>>

\* the failure table of the specification, first matching row
TableResponse(message) ==
    CASE Includes(message, <<"4", "0", "1">>) \/ Includes(message, <<"a", "u", "t", "h", "e", "n", "t", "i", "c", "a", "t", "i", "o", "n">>) ->
            ErrorResponse(500, ErrInvalidKey)
      [] ~(Includes(message, <<"4", "0", "1">>) \/ Includes(message, <<"a", "u", "t", "h", "e", "n", "t", "i", "c", "a", "t", "i", "o", "n">>))
            /\ (Includes(message, <<"4", "2", "9">>) \/ Includes(message, <<"r", "a", "t", "e", " ", "l", "i", "m", "i", "t">>)) ->
            ErrorResponse(429, ErrRateLimit)
      [] ~(Includes(message, <<"4", "0", "1">>) \/ Includes(message, <<"a", "u", "t", "h", "e", "n", "t", "i", "c", "a", "t", "i", "o", "n">>))
            /\ ~(Includes(message, <<"4", "2", "9">>) \/ Includes(message, <<"r", "a", "t", "e", " ", "l", "i", "m", "i", "t">>))
            /\ Includes(message, <<"t", "i", "m", "e", "o", "u", "t">>) ->
            ErrorResponse(504, ErrTimeout)
      [] OTHER -> ErrorResponse(500, ErrGeneric)

ValidationErrors ==
    {ErrTopicRequired, ErrTopicTooLong, ErrKeyPointsRequired, ErrKeyPointsTooLong, ErrTone}

FixedErrors ==
    ValidationErrors \cup {ErrNotConfigured, ErrInvalidKey, ErrRateLimit, ErrTimeout, ErrGeneric}

\* the provider call was made and rejected
ProviderFailed == providerCalls = 1 /\ providerResult.kind = "rejected"
\* the provider call was made and resolved
ProviderSucceeded == providerCalls = 1 /\ providerResult.kind = "resolved"

HasTextBlock(content) == \E i \in 1..Len(content) : content[i].type = "text"

\* the text of the first text-typed block of a list that has one
FirstText(content) ==
    LET first == CHOOSE i \in 1..Len(content) :
                    /\ content[i].type = "text"
                    /\ \A j \in 1..(i - 1) : content[j].type # "text"
    IN  content[first].text

----------------------------------------------------------------------------
(* C1: for every request body that is a JSON value, if one of the five     *)
(* input rules fails, the response is status 400 with the message of the   *)
(* earliest failing rule, and the five messages are pairwise distinct.     *)
(* Violated: for the body null no topic is present, and the handler        *)
(* answers 500 with the generic message.                                   *)
C1_EarliestRuleAnswers400 ==
    /\ Cardinality(ValidationErrors) = 5
    /\ (pc = "done" /\ body.kind # "invalid" /\ EarliestFailure(body) # <<>>)
          => response = ErrorResponse(400, EarliestFailure(body))

(* C2: the provider is called at most once in an invocation, and only when *)
(* all five input rules pass and a credential is configured: no call for a *)
(* topic or keyPoints of trimmed length 0 or above its limit, and no       *)
(* second call after a failure.                                            *)
C2_ProviderCalledAtMostOnceAfterChecks ==
    /\ providerCalls <= 1
    /\ providerCalls = 1 => (AllRulesPass(body) /\ Configured)
    /\ providerResult.kind # "none" => providerCalls = 1

\* the one call was made, failed, and the invocation ended without another
C2_Witness == pc = "done" /\ ProviderFailed /\ response.kind = "error"

C4_BadToneAnswers400 ==
    (/\ pc = "done" /\ body.kind = "object"
     /\ TopicPresent(body) /\ TopicWithinLimit(body)
     /\ KeyPointsPresent(body) /\ KeyPointsWithinLimit(body)
     /\ ~ToneInEnum(body))
        => response = ErrorResponse(400, ErrTone)

\* a tone that is an array holding a valid tone, with a credential configured
C4_Witness ==
    /\ pc = "done" /\ Configured /\ body.kind = "object"
    /\ TopicPresent(body) /\ TopicWithinLimit(body)
    /\ KeyPointsPresent(body) /\ KeyPointsWithinLimit(body)
    /\ body.tone = Arr(<<"c", "a", "s", "u", "a", "l">>)
    /\ response = ErrorResponse(400, ErrTone)

(* C5: when the provider call fails, the response is the first matching    *)
(* row of the table 401/authentication -> invalid credential 500, 429/rate *)
(* limit -> rate limited 429, timeout -> timeout 504, else generic 500.    *)
C5_FailureMappedByPrecedence ==
    (pc = "done" /\ ProviderFailed) => response = TableResponse(providerResult.message)

\* a failure message holding "429" and "401" is answered as an invalid credential
C5_Witness ==
    /\ pc = "done" /\ ProviderFailed
    /\ Includes(providerResult.message, <<"4", "2", "9">>)
    /\ Includes(providerResult.message, <<"4", "0", "1">>)
    /\ response = ErrorResponse(500, ErrInvalidKey)

(* C6 as stated: every provider failure whose message contains "429" is    *)
(* answered 429 with the rate-limit message, whatever else it contains.    *)
C6_Original ==
    (pc = "done" /\ ProviderFailed /\ Includes(providerResult.message, <<"4", "2", "9">>))
        => response = ErrorResponse(429, ErrRateLimit)

(* C6 amended: every provider failure whose message contains "429" and     *)
(* neither "401" nor "authentication" is answered 429 with the rate-limit  *)
(* message, whether or not "timeout" is also present.                      *)
C6_RateLimitUnlessCredential ==
    (/\ pc = "done" /\ ProviderFailed
     /\ Includes(providerResult.message, <<"4", "2", "9">>)
     /\ ~Includes(providerResult.message, <<"4", "0", "1">>)
     /\ ~Includes(providerResult.message, <<"a", "u", "t", "h", "e", "n", "t", "i", "c", "a", "t", "i", "o", "n">>))
        => response = ErrorResponse(429, ErrRateLimit)

\* a failure message holding "429" and "timeout" is answered as rate limited
C6_Witness ==
    /\ pc = "done" /\ ProviderFailed
    /\ Includes(providerResult.message, <<"4", "2", "9">>)
    /\ Includes(providerResult.message, <<"t", "i", "m", "e", "o", "u", "t">>)
    /\ response = ErrorResponse(429, ErrRateLimit)

(* C7: every response is status 200 with an article, or a failure with     *)
(* status 400, 429, 500 or 504 and one of the ten fixed messages; the text *)
(* of a caught exception is never the text of the response.                *)
C7_ResponseShape ==
    /\ pc # "done" => response = NoResponse
    /\ pc = "done" =>
        \/ response.kind = "article" /\ response.status = 200
        \/ /\ response.kind = "error"
           /\ response.status \in {400, 429, 500, 504}
           /\ response.text \in FixedErrors
    /\ thrown.where # "none" => response.text # thrown.message

\* a provider failure matching no row: logged as raised, answered with the generic message
C7_Witness ==
    /\ pc = "done" /\ ProviderFailed
    /\ thrown.message = <<"T", "i", "m", "e", "o", "u", "t">> /\ logged = <<<<"T", "i", "m", "e", "o", "u", "t">>>>
    /\ response = ErrorResponse(500, ErrGeneric)

(* C8: when the provider call succeeds with a content list that holds a    *)
(* text-typed block, the response is 200 with the text of the first        *)
(* text-typed block, whatever its position.                                *)
(* Violated: only content[0] is looked at.                                 *)
C8_FirstTextBlockReturned ==
    (pc = "done" /\ ProviderSucceeded /\ HasTextBlock(providerResult.content))
        => response = ArticleResponse(200, FirstText(providerResult.content))

(* C9: when the provider call succeeds with a content list that holds no   *)
(* text-typed block, the empty list included, the response is 200 with the *)
(* fallback article.                                                       *)
(* Violated: content[0].type throws for the empty list.                    *)
C9_FallbackWhenNoTextBlock ==
    (pc = "done" /\ ProviderSucceeded /\ ~HasTextBlock(providerResult.content))
        => response = ArticleResponse(200, FallbackArticle)

(* C10: the invalid-credential, rate-limited and timeout responses are     *)
(* returned only when the provider was called and failed.                  *)
(* Violated: the catch block also maps the exception of request.json().    *)
C10_MappingOnlyForProviderFailures ==
    (pc = "done" /\ response.text \in {ErrInvalidKey, ErrRateLimit, ErrTimeout})
        => ProviderFailed

----------------------------------------------------------------------------
(* The form controller: the literals and pure parts of page.tsx.           *)

TONE_OPTIONS ==
    << <<"p", "r", "o", "f", "e", "s", "s", "i", "o", "n", "a", "l">>, <<"c", "a", "s", "u", "a", "l">>, <<"a", "c", "a", "d", "e", "m", "i", "c">>, <<"c", "r", "e", "a", "t", "i", "v", "e">>, <<"c", "o", "n", "v", "e", "r", "s", "a", "t", "i", "o", "n", "a", "l">> >>

FormMaxTopicLen == 200
FormMaxKeyPointsLen == 2000
CooldownMs == 3000
FlagMs == 2000
SliceLen == 50

MsgEnterTopic == <<"P", "l", "e", "a", "s", "e", " ", "e", "n", "t", "e", "r", " ", "a", " ", "t", "o", "p", "i", "c">>
MsgTopicTooLong == <<"T", "o", "p", "i", "c", " ", "m", "u", "s", "t", " ", "b", "e", " ", "2", "0",
       "0", " ", "c", "h", "a", "r", "a", "c", "t", "e", "r", "s", " ", "o", "r", " ",
       "l", "e", "s", "s">>
MsgEnterKeyPoint == <<"P", "l", "e", "a", "s", "e", " ", "e", "n", "t", "e", "r", " ", "a", "t", " ",
       "l", "e", "a", "s", "t", " ", "o", "n", "e", " ", "k", "e", "y", " ", "p", "o",
       "i", "n", "t">>
MsgKeyPointsTooLong == <<"K", "e", "y", " ", "p", "o", "i", "n", "t", "s", " ", "m", "u", "s", "t", " ",
       "b", "e", " ", "2", "0", "0", "0", " ", "c", "h", "a", "r", "a", "c", "t", "e",
       "r", "s", " ", "o", "r", " ", "l", "e", "s", "s">>
MsgCooldown == <<"P", "l", "e", "a", "s", "e", " ", "w", "a", "i", "t", " ", "a", " ", "f", "e",
       "w", " ", "s", "e", "c", "o", "n", "d", "s", " ", "b", "e", "f", "o", "r", "e",
       " ", "g", "e", "n", "e", "r", "a", "t", "i", "n", "g", " ", "a", "g", "a", "i",
       "n">>
MsgGenerateFailed == <<"F", "a", "i", "l", "e", "d", " ", "t", "o", " ", "g", "e", "n", "e", "r", "a",
       "t", "e", " ", "a", "r", "t", "i", "c", "l", "e">>
MsgCopyFailed == <<"F", "a", "i", "l", "e", "d", " ", "t", "o", " ", "c", "o", "p", "y", " ", "t",
       "o", " ", "c", "l", "i", "p", "b", "o", "a", "r", "d", ".", " ", "P", "l", "e",
       "a", "s", "e", " ", "t", "r", "y", " ", "a", "g", "a", "i", "n", " ", "o", "r",
       " ", "u", "s", "e", " ", "C", "t", "r", "l", "+", "C", "/", "C", "m", "d", "+",
       "C", ".">>
MsgDownloadFailed == <<"F", "a", "i", "l", "e", "d", " ", "t", "o", " ", "d", "o", "w", "n", "l", "o",
       "a", "d", " ", "f", "i", "l", "e", ".", " ", "P", "l", "e", "a", "s", "e", " ",
       "t", "r", "y", " ", "a", "g", "a", "i", "n", ".">>

\* the browser's TypeError message of a fetch that could not be made
MsgFetchFailed == <<"F", "a", "i", "l", "e", "d", " ", "t", "o", " ", "f", "e", "t", "c", "h">>
\* the engine's SyntaxError message of response.json() for a body that is not JSON
MsgResponseNotJson == <<"U", "n", "e", "x", "p", "e", "c", "t", "e", "d", " ", "t", "o", "k", "e", "n",
       " ", "'", "<", "'", ",", " ", "\"", "<", "!", "D", "O", "C", "T", "Y", "P", "E",
       " ", "\"", ".", ".", ".", " ", "i", "s", " ", "n", "o", "t", " ", "v", "a", "l",
       "i", "d", " ", "J", "S", "O", "N">>

\* validateForm with the length tests made on the trimmed text
validateForm_TrimmedLength(fd) ==
    IF Len(Trim(fd.topic)) = 0 THEN [valid |-> FALSE, error |-> MsgEnterTopic]
    ELSE IF Len(Trim(fd.topic)) > FormMaxTopicLen THEN [valid |-> FALSE, error |-> MsgTopicTooLong]
    ELSE IF Len(Trim(fd.keyPoints)) = 0 THEN [valid |-> FALSE, error |-> MsgEnterKeyPoint]
    ELSE IF Len(Trim(fd.keyPoints)) > FormMaxKeyPointsLen
    THEN [valid |-> FALSE, error |-> MsgKeyPointsTooLong]
    ELSE [valid |-> TRUE, error |-> <<>>]

\* validateForm without the test of the key points being there
validateForm_NoKeyPointsTest(fd) ==
    IF Len(Trim(fd.topic)) = 0 THEN [valid |-> FALSE, error |-> MsgEnterTopic]
    ELSE IF Len(fd.topic) > FormMaxTopicLen THEN [valid |-> FALSE, error |-> MsgTopicTooLong]
    ELSE IF Len(fd.keyPoints) > FormMaxKeyPointsLen
    THEN [valid |-> FALSE, error |-> MsgKeyPointsTooLong]
    ELSE [valid |-> TRUE, error |-> <<>>]

\* validateForm with the topic tested for emptiness without trim()
validateForm_NoTopicTrim(fd) ==
    IF Len(fd.topic) = 0 THEN [valid |-> FALSE, error |-> MsgEnterTopic]
    ELSE IF Len(fd.topic) > FormMaxTopicLen THEN [valid |-> FALSE, error |-> MsgTopicTooLong]
    ELSE IF Len(Trim(fd.keyPoints)) = 0 THEN [valid |-> FALSE, error |-> MsgEnterKeyPoint]
    ELSE IF Len(fd.keyPoints) > FormMaxKeyPointsLen
    THEN [valid |-> FALSE, error |-> MsgKeyPointsTooLong]
    ELSE [valid |-> TRUE, error |-> <<>>]

\* lines 44-62: the value returned, and the message given to setError when it is false
validateForm(fd) ==
    IF Len(Trim(fd.topic)) = 0 THEN [valid |-> FALSE, error |-> MsgEnterTopic]
    ELSE IF Len(fd.topic) > FormMaxTopicLen THEN [valid |-> FALSE, error |-> MsgTopicTooLong]
    ELSE IF Len(Trim(fd.keyPoints)) = 0 THEN [valid |-> FALSE, error |-> MsgEnterKeyPoint]
    ELSE IF Len(fd.keyPoints) > FormMaxKeyPointsLen
    THEN [valid |-> FALSE, error |-> MsgKeyPointsTooLong]
    ELSE [valid |-> TRUE, error |-> <<>>]

\* the cooldown test with <= instead of <
InCooldown_Inclusive(t, last) == t - last <= CooldownMs

\* line 73: now - lastGenerated < 3000
InCooldown(t, last) == t - last < CooldownMs

\* response.ok
ResponseOk(r) == r.status >= 200 /\ r.status <= 299

LowerLetters == <<"a", "b", "c", "d", "e", "f", "g", "h", "i", "j", "k", "l", "m", "n", "o", "p",
       "q", "r", "s", "t", "u", "v", "w", "x", "y", "z">>
UpperLetters == <<"A", "B", "C", "D", "E", "F", "G", "H", "I", "J", "K", "L", "M", "N", "O", "P",
       "Q", "R", "S", "T", "U", "V", "W", "X", "Y", "Z">>
Digits == <<"0", "1", "2", "3", "4", "5", "6", "7", "8", "9">>

\* c matches [a-z0-9] under the i flag
IsAlnum(c) ==
    \/ \E i \in 1..Len(LowerLetters) : c = LowerLetters[i] \/ c = UpperLetters[i]
    \/ \E i \in 1..Len(Digits) : c = Digits[i]

\* the lower-case form of a character that is a hyphen, a digit or an ASCII letter
ToLowerChar(c) ==
    IF \E i \in 1..Len(UpperLetters) : c = UpperLetters[i]
    THEN LowerLetters[CHOOSE i \in 1..Len(UpperLetters) : c = UpperLetters[i]]
    ELSE c

\* s.slice(0, n)
Slice(s, n) == SubSeq(s, 1, IF Len(s) < n THEN Len(s) ELSE n)

\* s.replace(/[^a-z0-9]/gi, '-')
ReplaceNonAlnum(s) == [i \in 1..Len(s) |-> IF IsAlnum(s[i]) THEN s[i] ELSE "-"]

\* s.toLowerCase()
ToLowerCase(s) == [i \in 1..Len(s) |-> ToLowerChar(s[i])]

\* the file name with the first 50 characters taken after the replacement of
\* each run of other characters by one hyphen
DownloadName_RunsThenSlice(topic) ==
    LET replaced == ReplaceNonAlnum(topic)
        kept == {i \in 1..Len(replaced) : replaced[i] # "-" \/ i = 1 \/ replaced[i - 1] # "-"}
        Squeeze[i \in 0..Len(replaced)] ==
            IF i = 0 THEN <<>>
            ELSE IF i \in kept THEN Append(Squeeze[i - 1], replaced[i]) ELSE Squeeze[i - 1]
        derived == ToLowerCase(Slice(Squeeze[Len(replaced)], SliceLen))
    IN  (IF derived = <<>> THEN <<"a", "r", "t", "i", "c", "l", "e">> ELSE derived) \o <<".", "m", "d">>

\* the file name with 'article' also taken when the derived name has no letter or digit
DownloadName_ArticleWhenNoAlnum(topic) ==
    LET derived == ToLowerCase(ReplaceNonAlnum(Slice(topic, SliceLen)))
    IN  (IF \A i \in 1..Len(derived) : derived[i] = "-" THEN <<"a", "r", "t", "i", "c", "l", "e">> ELSE derived)
            \o <<".", "m", "d">>

\* the file name without toLowerCase()
DownloadName_NoLowerCase(topic) ==
    LET derived == ReplaceNonAlnum(Slice(topic, SliceLen))
    IN  (IF derived = <<>> THEN <<"a", "r", "t", "i", "c", "l", "e">> ELSE derived) \o <<".", "m", "d">>

\* line 127: a.download
DownloadName(topic) ==
    LET derived == ToLowerCase(ReplaceNonAlnum(Slice(topic, SliceLen)))
    IN  (IF derived = <<>> THEN <<"a", "r", "t", "i", "c", "l", "e">> ELSE derived) \o <<".", "m", "d">>

----------------------------------------------------------------------------
(* The form controller: what the user and the browser can do to Home.      *)

\* the page runs; no POST invocation is followed
EndpointAtRest ==
    /\ pc = "none"
    /\ body = [kind |-> "none", topic |-> Undefined, keyPoints |-> Undefined,
               tone |-> Undefined]
    /\ apiKey = Undefined
    /\ providerCalls = 0
    /\ providerResult = NoResult
    /\ thrown = NoException
    /\ logged = <<>>
    /\ response = NoResponse
    /\ peer = NoPeer

\* texts typed into the topic input (maxLength 200) and the key points textarea
TopicChoices == {<<>>, <<" ", " ">>, <<"A", "I", " ", "E", "t", "h", "i", "c", "s", " ", "&", " ", "S", "o", "c", "i", "e", "t", "y", "!">>}
KeyPointsChoices == {<<>>, <<"e", "t", "h", "i", "c", "s", ",", " ", "s", "o", "c", "i", "e", "t", "y">>}

\* texts typed into the Edit Draft textarea
DraftChoices == {<<>>, <<"#", " ", "A", ",", " ", "e", "d", "i", "t", "e", "d">>}

\* what the endpoint, or something between it and the browser, answers
HttpResponses ==
    {ArticleResponse(200, <<"#", " ", "A">>),
     ErrorResponse(429, ErrRateLimit),
     ErrorResponse(502, <<>>),
     [status |-> 502, kind |-> "unparseable", text |-> <<>>]}

\* the input, textarea and select of the form (lines 161-218), disabled while loading
FieldsEnabled == ~isLoading

\* the submit button with no guard on isLoading
SubmitEnabled_Always == TRUE

\* the submit button, lines 229-233: disabled={isLoading}
SubmitEnabled == ~isLoading

\* the results section shown whatever the draft
ResultsShown_Always == TRUE

\* the results section with its buttons and textarea, line 251
ResultsShown == generatedArticle # <<>>

\* the text of the draft as the provider returned it
CopyText_AsReturned == fetched.text

\* line 108: the text given to writeText
CopyText == generatedArticle

\* handleInputChange with blank values turned away
handleInputChange_Validated(field, value) ==
    /\ FieldsEnabled
    /\ formData' = IF Trim(value) = <<>> THEN formData ELSE [formData EXCEPT ![field] = value]
    /\ error' = <<>>
    /\ UNCHANGED <<generatedArticle, isLoading, lastGenerated, copySuccess, downloadSuccess,
                   now, inFlight, fetched, clipboardPending, clipboard, copyTimers,
                   downloadTimers, download>>

\* lines 39-42, from the onChange of a form field
handleInputChange(field, value) ==
    /\ FieldsEnabled
    /\ formData' = [formData EXCEPT ![field] = value]
    /\ error' = <<>>
    /\ UNCHANGED <<generatedArticle, isLoading, lastGenerated, copySuccess, downloadSuccess,
                   now, inFlight, fetched, clipboardPending, clipboard, copyTimers,
                   downloadTimers, download>>

UpdateField ==
    /\ \/ \E value \in TopicChoices : handleInputChange("topic", value)
       \/ \E value \in KeyPointsChoices : handleInputChange("keyPoints", value)
       \/ \E i \in 1..Len(TONE_OPTIONS) : handleInputChange("tone", TONE_OPTIONS[i])
    /\ UNCHANGED endpointVars

\* handleSubmit with the draft cleared before the form is validated
handleSubmit_ClearsFirst ==
    /\ SubmitEnabled
    /\ generatedArticle' = <<>>
    /\ LET checked == validateForm(formData)
       IN  IF ~checked.valid
           THEN /\ error' = checked.error
                /\ UNCHANGED <<isLoading, inFlight>>
           ELSE IF InCooldown(now, lastGenerated)
           THEN /\ error' = MsgCooldown
                /\ UNCHANGED <<isLoading, inFlight>>
           ELSE /\ isLoading' = TRUE
                /\ error' = <<>>
                /\ inFlight' = Append(inFlight, formData)
    /\ UNCHANGED <<formData, lastGenerated, copySuccess, downloadSuccess, now, fetched,
                   clipboardPending, clipboard, copyTimers, downloadTimers, download>>
    /\ UNCHANGED endpointVars

\* lines 64-89: handleSubmit up to the fetch call
handleSubmit ==
    /\ SubmitEnabled
    /\ LET checked == validateForm(formData)
       IN  IF ~checked.valid
           THEN /\ error' = checked.error
                /\ UNCHANGED <<isLoading, generatedArticle, inFlight>>
           ELSE IF InCooldown(now, lastGenerated)
           THEN /\ error' = MsgCooldown
                /\ UNCHANGED <<isLoading, generatedArticle, inFlight>>
           ELSE /\ isLoading' = TRUE
                /\ error' = <<>>
                /\ generatedArticle' = <<>>
                /\ inFlight' = Append(inFlight, formData)
    /\ UNCHANGED <<formData, lastGenerated, copySuccess, downloadSuccess, now, fetched,
                   clipboardPending, clipboard, copyTimers, downloadTimers, download>>
    /\ UNCHANGED endpointVars

\* line 94: data.error || 'Failed to generate article'
FailureMessage(r) == IF r.text # <<>> THEN r.text ELSE MsgGenerateFailed

\* the catch block with no finally block after it
Failed_StillLoading(message) ==
    /\ error' = message
    /\ UNCHANGED <<isLoading, generatedArticle, lastGenerated>>

\* the catch block with the time of the attempt recorded
Failed_Stamped(message) ==
    /\ error' = message
    /\ isLoading' = FALSE
    /\ lastGenerated' = now
    /\ UNCHANGED generatedArticle

\* lines 99-103: the catch block and the finally block
Failed(message) ==
    /\ error' = message
    /\ isLoading' = FALSE
    /\ UNCHANGED <<generatedArticle, lastGenerated>>

\* lines 97-98, 101-103: the success path and the finally block
Succeeded(article) ==
    /\ generatedArticle' = article
    /\ lastGenerated' = now
    /\ isLoading' = FALSE
    /\ UNCHANGED error

\* lines 83, 99-103: fetch rejects
FetchRejects ==
    /\ inFlight # <<>>
    /\ inFlight' = Tail(inFlight)
    /\ fetched' = [status |-> 0, kind |-> "rejected", text |-> MsgFetchFailed]
    /\ Failed(MsgFetchFailed)
    /\ UNCHANGED <<formData, copySuccess, downloadSuccess, now, clipboardPending,
                   clipboard, copyTimers, downloadTimers, download>>
    /\ UNCHANGED endpointVars

\* lines 83-103: fetch resolves with a response
ResponseArrives ==
    /\ inFlight # <<>>
    /\ inFlight' = Tail(inFlight)
    /\ \E r \in HttpResponses :
        /\ fetched' = r
        /\ IF r.kind = "unparseable" THEN Failed(MsgResponseNotJson)
           ELSE IF ~ResponseOk(r) THEN Failed(FailureMessage(r))
           ELSE Succeeded(r.text)
    /\ UNCHANGED <<formData, copySuccess, downloadSuccess, now, clipboardPending,
                   clipboard, copyTimers, downloadTimers, download>>
    /\ UNCHANGED endpointVars

\* lines 325-331: the onChange of the Edit Draft textarea
EditDraft ==
    /\ ResultsShown
    /\ \E value \in DraftChoices : generatedArticle' = value
    /\ UNCHANGED <<formData, isLoading, error, lastGenerated, copySuccess, downloadSuccess,
                   now, inFlight, fetched, clipboardPending, clipboard, copyTimers,
                   downloadTimers, download>>
    /\ UNCHANGED endpointVars

\* lines 106-108: copyToClipboard up to the writeText call
copyToClipboard ==
    /\ ResultsShown
    /\ Len(clipboardPending) < MaxPending
    /\ clipboardPending' = Append(clipboardPending, CopyText)
    /\ UNCHANGED <<formData, generatedArticle, isLoading, error, lastGenerated, copySuccess,
                   downloadSuccess, now, inFlight, fetched, clipboard, copyTimers,
                   downloadTimers, download>>
    /\ UNCHANGED endpointVars

\* lines 108-115: writeText resolves
ClipboardResolves ==
    /\ clipboardPending # <<>>
    /\ clipboard' = Head(clipboardPending)
    /\ clipboardPending' = Tail(clipboardPending)
    /\ copySuccess' = TRUE
    /\ error' = <<>>
    /\ copyTimers' = copyTimers \cup {now + FlagMs}
    /\ UNCHANGED <<formData, generatedArticle, isLoading, lastGenerated, downloadSuccess,
                   now, inFlight, fetched, downloadTimers, download>>
    /\ UNCHANGED endpointVars

\* the catch block of copyToClipboard with the draft dropped
ClipboardRejects_ClearsDraft ==
    /\ clipboardPending # <<>>
    /\ clipboardPending' = Tail(clipboardPending)
    /\ error' = MsgCopyFailed
    /\ generatedArticle' = <<>>
    /\ UNCHANGED <<formData, isLoading, lastGenerated, copySuccess,
                   downloadSuccess, now, inFlight, fetched, clipboard, copyTimers,
                   downloadTimers, download>>
    /\ UNCHANGED endpointVars

\* lines 108, 116-118: writeText rejects
ClipboardRejects ==
    /\ clipboardPending # <<>>
    /\ clipboardPending' = Tail(clipboardPending)
    /\ error' = MsgCopyFailed
    /\ UNCHANGED <<formData, generatedArticle, isLoading, lastGenerated, copySuccess,
                   downloadSuccess, now, inFlight, fetched, clipboard, copyTimers,
                   downloadTimers, download>>
    /\ UNCHANGED endpointVars

\* lines 113-115: a timer of copyToClipboard fires, not before it is due
CopyTimerFires ==
    /\ \E due \in copyTimers :
        /\ now >= due
        /\ copyTimers' = copyTimers \ {due}
    /\ copySuccess' = FALSE
    /\ UNCHANGED <<formData, generatedArticle, isLoading, error, lastGenerated,
                   downloadSuccess, now, inFlight, fetched, clipboardPending, clipboard,
                   downloadTimers, download>>
    /\ UNCHANGED endpointVars

\* lines 121-136: downloadMarkdown runs to its end
downloadMarkdown ==
    /\ ResultsShown
    /\ download' = [saved |-> TRUE, name |-> DownloadName(formData.topic),
                    content |-> generatedArticle]
    /\ downloadSuccess' = TRUE
    /\ downloadTimers' = downloadTimers \cup {now + FlagMs}
    /\ UNCHANGED <<formData, generatedArticle, isLoading, error, lastGenerated, copySuccess,
                   now, inFlight, fetched, clipboardPending, clipboard, copyTimers>>
    /\ UNCHANGED endpointVars

\* lines 121-139: a statement of downloadMarkdown throws, before or after a.click()
DownloadFails ==
    /\ ResultsShown
    /\ \E clicked \in BOOLEAN :
        download' = IF clicked
                    THEN [saved |-> TRUE, name |-> DownloadName(formData.topic),
                          content |-> generatedArticle]
                    ELSE download
    /\ error' = MsgDownloadFailed
    /\ UNCHANGED <<formData, generatedArticle, isLoading, lastGenerated, copySuccess,
                   downloadSuccess, now, inFlight, fetched, clipboardPending, clipboard,
                   copyTimers, downloadTimers>>
    /\ UNCHANGED endpointVars

\* lines 134-136: a timer of downloadMarkdown fires, not before it is due
DownloadTimerFires ==
    /\ \E due \in downloadTimers :
        /\ now >= due
        /\ downloadTimers' = downloadTimers \ {due}
    /\ downloadSuccess' = FALSE
    /\ UNCHANGED <<formData, generatedArticle, isLoading, error, lastGenerated, copySuccess,
                   now, inFlight, fetched, clipboardPending, clipboard, copyTimers,
                   download>>
    /\ UNCHANGED endpointVars

\* Date.now() advances
Tick ==
    /\ now < StartTime + MaxTicks * TickMs
    /\ now' = now + TickMs
    /\ UNCHANGED <<formData, generatedArticle, isLoading, error, lastGenerated, copySuccess,
                   downloadSuccess, inFlight, fetched, clipboardPending, clipboard,
                   copyTimers, downloadTimers, download>>
    /\ UNCHANGED endpointVars

----------------------------------------------------------------------------
(* The specifications of the form controller.                              *)

FormInit == EndpointAtRest /\ HomeInitial

\* the form, its submission and the draft
FormNext ==
    \/ UpdateField \/ handleSubmit \/ FetchRejects \/ ResponseArrives \/ EditDraft \/ Tick

FormSpec == FormInit /\ [][FormNext]_vars

\* the request in flight settles
FormLive == FormSpec /\ WF_vars(FetchRejects \/ ResponseArrives)

\* Home when the first generation has just succeeded
Generated(fd) ==
    /\ EndpointAtRest
    /\ formData = fd
    /\ generatedArticle = <<"#", " ", "A">>
    /\ isLoading = FALSE
    /\ error = <<>>
    /\ lastGenerated = StartTime
    /\ copySuccess = FALSE
    /\ downloadSuccess = FALSE
    /\ now = StartTime
    /\ inFlight = <<>>
    /\ fetched = ArticleResponse(200, <<"#", " ", "A">>)
    /\ clipboardPending = <<>>
    /\ clipboard = <<>>
    /\ copyTimers = {}
    /\ downloadTimers = {}
    /\ download = NoFile

CopyInit ==
    Generated([topic |-> <<"A", "I", " ", "E", "t", "h", "i", "c", "s", " ", "&", " ", "S", "o", "c", "i", "e", "t", "y", "!">>, keyPoints |-> <<"e", "t", "h", "i", "c", "s", ",", " ", "s", "o", "c", "i", "e", "t", "y">>,
               tone |-> <<"p", "r", "o", "f", "e", "s", "s", "i", "o", "n", "a", "l">>])

\* the draft, its edits and its copies
CopyNext ==
    \/ EditDraft \/ copyToClipboard \/ ClipboardResolves \/ ClipboardRejects
    \/ CopyTimerFires \/ Tick

CopySpec == CopyInit /\ [][CopyNext]_vars

SlugChars == {"a", "Z", "7", " ", "&", "-", "\t"}

\* n characters of letters in both cases with a blank at every fifth place
LongTopic(n) ==
    [i \in 1..n |-> IF i % 5 = 0 THEN " " ELSE IF i % 2 = 0 THEN "B" ELSE "c"]

\* what the topic input may read when the draft is saved
SlugTopics ==
    UNION {[1..n -> SlugChars] : n \in 0..MaxSlugLen}
        \cup {<<"A", "I", " ", "E", "t", "h", "i", "c", "s", " ", "&", " ", "S", "o", "c", "i", "e", "t", "y", "!">>, <<"!", "!", "!">>, <<" ", " ", " ">>, <<"R", "e", "m", "o", "t", "e", " ", "W", "o", "r", "k">>,
              LongTopic(SliceLen - 1), LongTopic(SliceLen), LongTopic(SliceLen + 1),
              LongTopic(FormMaxTopicLen)}

DownloadInit ==
    \E t \in SlugTopics :
        Generated([topic |-> t, keyPoints |-> <<"e", "t", "h", "i", "c", "s", ",", " ", "s", "o", "c", "i", "e", "t", "y">>, tone |-> <<"p", "r", "o", "f", "e", "s", "s", "i", "o", "n", "a", "l">>])

\* the draft saved as a file, for every topic
DownloadNext == downloadMarkdown \/ DownloadFails \/ DownloadTimerFires \/ Tick

DownloadSpec == DownloadInit /\ [][DownloadNext]_vars

\* the draft copied and saved, with no clock
ExportNext ==
    \/ EditDraft \/ copyToClipboard \/ ClipboardResolves \/ ClipboardRejects
    \/ downloadMarkdown \/ DownloadFails

ExportSpec == CopyInit /\ [][ExportNext]_vars

\* copies of a draft and the generation that follows it
RaceNext ==
    \/ copyToClipboard \/ ClipboardResolves \/ ClipboardRejects
    \/ handleSubmit \/ FetchRejects \/ ResponseArrives \/ Tick

RaceSpec == CopyInit /\ [][RaceNext]_vars

\* form data for validateForm, whatever put it there
AnyFormData ==
    {[topic |-> Padded(p, n), keyPoints |-> Padded(q, m), tone |-> o] :
        p \in 0..MaxPad, q \in 0..MaxPad,
        n \in {0, 1, FormMaxTopicLen - 1, FormMaxTopicLen, FormMaxTopicLen + 1},
        m \in {0, 1, FormMaxKeyPointsLen - 1, FormMaxKeyPointsLen, FormMaxKeyPointsLen + 1},
        o \in {<<"p", "r", "o", "f", "e", "s", "s", "i", "o", "n", "a", "l">>, <<"c", "o", "n", "v", "e", "r", "s", "a", "t", "i", "o", "n", "a", "l">>, <<"f", "o", "r", "m", "a", "l">>, <<>>}}

ValidateInit ==
    /\ EndpointAtRest
    /\ formData \in AnyFormData
    /\ generatedArticle = <<>>
    /\ isLoading = FALSE
    /\ error = <<>>
    /\ lastGenerated = 0
    /\ copySuccess = FALSE
    /\ downloadSuccess = FALSE
    /\ now = StartTime
    /\ inFlight = <<>>
    /\ fetched = NothingFetched
    /\ clipboardPending = <<>>
    /\ clipboard = <<>>
    /\ copyTimers = {}
    /\ downloadTimers = {}
    /\ download = NoFile

\* validateForm, as handleSubmit applies it, for every form data
ValidateSpec == ValidateInit /\ [][handleSubmit]_vars

----------------------------------------------------------------------------
(* Two POST invocations in one process. The handler awaits request.json()   *)
(* and the provider call; between these the other invocation may run. The   *)
(* process holds the credential, the anthropic client (route.ts lines       *)
(* 18-22) and the console; everything else is local to an invocation.       *)

\* the catch block with the response kept in a variable of the module
PeerCatch_ModuleLevel(result, caught) ==
    /\ peer' = [peer EXCEPT !.providerResult = result, !.thrown = caught,
                            !.response = MapError(caught), !.pc = "done"]
    /\ logged' = Append(logged, caught.message)
    /\ response' = IF pc = "done" THEN MapError(caught) ELSE response
    /\ UNCHANGED <<pc, thrown>>

\* lines 118-150, in the second invocation, after its provider call settled as result
PeerCatch(result, caught) ==
    /\ peer' = [peer EXCEPT !.providerResult = result, !.thrown = caught,
                            !.response = MapError(caught), !.pc = "done"]
    /\ logged' = Append(logged, caught.message)
    /\ UNCHANGED <<pc, thrown, response>>

\* the failure messages and content lists given to the second invocation
PeerMessages == {<<>>, <<"4", "2", "9">>, <<"t", "i", "m", "e", "o", "u", "t">>}
PeerContentLists == {<<>>, <<[type |-> "text", text |-> <<"B">>]>>}

\* line 27, in the second invocation: request.json() rejects
PeerParseFails ==
    /\ peer.pc = "start"
    /\ peer.body.kind = "invalid"
    /\ \E snippet \in PeerMessages :
        PeerCatch(NoResult, Exception("parse", SyntaxErrorMessage(snippet)))
    /\ UNCHANGED <<body, apiKey, providerCalls, providerResult>>
    /\ UNCHANGED formVars

\* lines 27-105, in the second invocation
PeerHandleBody ==
    /\ peer.pc = "start"
    /\ peer.body.kind # "invalid"
    /\ IF peer.body.kind = "null"
       THEN /\ PeerCatch(NoResult, Exception("destructure", DestructureErrorMessage))
            /\ UNCHANGED providerCalls
       ELSE LET early == CheckRequest(peer.body.topic, peer.body.keyPoints, peer.body.tone,
                                      apiKey)
            IN  IF early # NoResponse
                THEN /\ peer' = [peer EXCEPT !.response = early, !.pc = "done"]
                     /\ UNCHANGED <<providerCalls, logged, pc, thrown, response>>
                ELSE /\ providerCalls' = providerCalls + 1
                     /\ peer' = [peer EXCEPT !.pc = "awaiting"]
                     /\ UNCHANGED <<logged, pc, thrown, response>>
    /\ UNCHANGED <<body, apiKey, providerResult>>
    /\ UNCHANGED formVars

\* lines 96-116, in the second invocation
PeerProviderResolves ==
    /\ peer.pc = "awaiting"
    /\ \E content \in PeerContentLists :
        LET result == [kind |-> "resolved", content |-> content, message |-> <<>>]
        IN  IF ExtractThrows(content)
            THEN PeerCatch(result, Exception("extract", ReadTypeErrorMessage))
            ELSE /\ peer' = [peer EXCEPT !.providerResult = result,
                                         !.response = ArticleResponse(200, ArticleText(content)),
                                         !.pc = "done"]
                 /\ UNCHANGED <<logged, pc, thrown, response>>
    /\ UNCHANGED <<body, apiKey, providerCalls, providerResult>>
    /\ UNCHANGED formVars

\* lines 96-105, 118-150, in the second invocation
PeerProviderRejects ==
    /\ peer.pc = "awaiting"
    /\ \E message \in PeerMessages :
        PeerCatch([kind |-> "rejected", content |-> <<>>, message |-> message],
                          Exception("provider", message))
    /\ UNCHANGED <<body, apiKey, providerCalls, providerResult>>
    /\ UNCHANGED formVars

\* the request bodies of two invocations that run together
ConcurrentBodies ==
    {[kind |-> k, topic |-> Undefined, keyPoints |-> Undefined, tone |-> Undefined] :
        k \in {"invalid", "null"}}
        \cup {[kind |-> "object", topic |-> Str(<<"A", "I">>), keyPoints |-> Str(<<"e", "t", "h", "i", "c", "s">>),
               tone |-> Str(o)] : o \in {<<"c", "a", "s", "u", "a", "l">>, <<"f", "o", "r", "m", "a", "l">>}}

ConcurrentInit ==
    /\ HomeInitial
    /\ pc = "start"
    /\ body \in ConcurrentBodies
    /\ apiKey \in ApiKeys
    /\ providerCalls = 0
    /\ providerResult = NoResult
    /\ thrown = NoException
    /\ logged = <<>>
    /\ response = NoResponse
    /\ \E b \in ConcurrentBodies : peer = [NoPeer EXCEPT !.pc = "start", !.body = b]

ConcurrentNext ==
    \/ ParseFails \/ HandleBody \/ ProviderResolves \/ ProviderRejects
    \/ PeerParseFails \/ PeerHandleBody \/ PeerProviderResolves \/ PeerProviderRejects

ConcurrentSpec == ConcurrentInit /\ [][ConcurrentNext]_vars

----------------------------------------------------------------------------
(* The form and the endpoint together: one request of the form, followed    *)
(* through POST and back.                                                   *)

\* page.tsx line 88 and route.ts lines 27-28: JSON.stringify(formData) as read
\* back by request.json(), three string members
JsonBody(fd) ==
    [kind |-> "object", topic |-> Str(fd.topic), keyPoints |-> Str(fd.keyPoints),
     tone |-> Str(fd.tone)]

\* what the form can hold when it is submitted: texts around the limits as the
\* inputs let them be typed, a tone of the select
SubmittableFormData ==
    {[topic |-> Padded(p, n), keyPoints |-> k, tone |-> TONE_OPTIONS[o]] :
        p \in 0..MaxPad,
        n \in {0, 1, FormMaxTopicLen - 2, FormMaxTopicLen - 1, FormMaxTopicLen},
        k \in {<<>>, <<" ", " ">>, <<"e", "t", "h", "i", "c", "s", ",", " ", "s", "o", "c", "i", "e", "t", "y">>, Padded(1, FormMaxKeyPointsLen - 2)},
        o \in 1..Len(TONE_OPTIONS)}

LinkInit ==
    /\ pc = "none"
    /\ body = [kind |-> "none", topic |-> Undefined, keyPoints |-> Undefined,
               tone |-> Undefined]
    /\ apiKey \in ApiKeys
    /\ providerCalls = 0
    /\ providerResult = NoResult
    /\ thrown = NoException
    /\ logged = <<>>
    /\ response = NoResponse
    /\ peer = NoPeer
    /\ formData \in SubmittableFormData
    /\ generatedArticle = <<>>
    /\ isLoading = FALSE
    /\ error = <<>>
    /\ lastGenerated = 0
    /\ copySuccess = FALSE
    /\ downloadSuccess = FALSE
    /\ now = StartTime
    /\ inFlight = <<>>
    /\ fetched = NothingFetched
    /\ clipboardPending = <<>>
    /\ clipboard = <<>>
    /\ copyTimers = {}
    /\ downloadTimers = {}
    /\ download = NoFile

\* page.tsx lines 83-89, route.ts line 27: the request of the form reaches POST
Post ==
    /\ inFlight # <<>>
    /\ pc = "none"
    /\ response = NoResponse
    /\ pc' = "start"
    /\ body' = JsonBody(Head(inFlight))
    /\ UNCHANGED <<apiKey, providerCalls, providerResult, thrown, logged, response, peer>>
    /\ UNCHANGED formVars

\* page.tsx lines 83-103: the response of POST is handled by the form
EndpointAnswers ==
    /\ inFlight # <<>>
    /\ pc = "done"
    /\ pc' = "none"
    /\ inFlight' = Tail(inFlight)
    /\ fetched' = response
    /\ IF ~ResponseOk(response) THEN Failed(FailureMessage(response))
       ELSE Succeeded(response.text)
    /\ UNCHANGED <<body, apiKey, providerCalls, providerResult, thrown, logged, response,
                   peer>>
    /\ UNCHANGED <<formData, copySuccess, downloadSuccess, now, clipboardPending,
                   clipboard, copyTimers, downloadTimers, download>>

LinkNext ==
    \/ handleSubmit \/ Post \/ HandleBody \/ ProviderResolves \/ ProviderRejects
    \/ EndpointAnswers

LinkSpec == LinkInit /\ [][LinkNext]_vars

----------------------------------------------------------------------------
(* The form controller's claims, in the specification's words.             *)

\* the four rules of validate()
FormTopicPresent(fd) == Trim(fd.topic) # <<>>
FormTopicWithinLimit(fd) == Len(fd.topic) <= FormMaxTopicLen
FormKeyPointsPresent(fd) == Trim(fd.keyPoints) # <<>>
FormKeyPointsWithinLimit(fd) == Len(fd.keyPoints) <= FormMaxKeyPointsLen

\* the number of the first rule that fd fails, 0 when it passes all four
FirstFailingRule(fd) ==
    IF ~FormTopicPresent(fd) THEN 1
    ELSE IF ~FormTopicWithinLimit(fd) THEN 2
    ELSE IF ~FormKeyPointsPresent(fd) THEN 3
    ELSE IF ~FormKeyPointsWithinLimit(fd) THEN 4
    ELSE 0

RuleMessage(n) ==
    CASE n = 1 -> MsgEnterTopic
      [] n = 2 -> MsgTopicTooLong
      [] n = 3 -> MsgEnterKeyPoint
      [] n = 4 -> MsgKeyPointsTooLong

PassesValidation(fd) == FirstFailingRule(fd) = 0

\* the five values of the tone enum
ToneEnum == {<<"p", "r", "o", "f", "e", "s", "s", "i", "o", "n", "a", "l">>, <<"c", "a", "s", "u", "a", "l">>, <<"a", "c", "a", "d", "e", "m", "i", "c">>, <<"c", "r", "e", "a", "t", "i", "v", "e">>, <<"c", "o", "n", "v", "e", "r", "s", "a", "t", "i", "o", "n", "a", "l">>}

\* a step in which a request settles
Settles == Len(inFlight') < Len(inFlight)

(* C11: in every reachable state of the form controller at most one          *)
(* generation request is in flight, and one is in flight only while          *)
(* isLoading is true: a submit made while isLoading is true issues nothing.  *)
C11_AtMostOneRequestInFlight ==
    /\ Len(inFlight) <= 1
    /\ inFlight # <<>> => isLoading

\* a second generation is pending, time having passed since it was asked for
C11_Witness ==
    /\ Len(inFlight) = 1
    /\ isLoading
    /\ lastGenerated > 0
    /\ now > lastGenerated + CooldownMs

(* C12: after a successful generation, a submit of a valid form made fewer   *)
(* than 3000 ms after the success sets the cooldown error and issues no      *)
(* request; made when 3000 ms or more have passed, it issues a request.      *)
C12_CooldownAfterSuccess ==
    [][(handleSubmit /\ lastGenerated > 0 /\ PassesValidation(formData))
          => IF now - lastGenerated < 3000
             THEN /\ error' = MsgCooldown
                  /\ inFlight' = inFlight
                  /\ isLoading' = isLoading
             ELSE /\ inFlight' = Append(inFlight, formData)
                  /\ isLoading']_vars

\* a valid form was submitted within the cooldown and was turned away
C12_Witness ==
    /\ error = MsgCooldown
    /\ lastGenerated > 0
    /\ now - lastGenerated < 3000
    /\ PassesValidation(formData)
    /\ inFlight = <<>>

(* C13: lastGenerated changes only in the step that handles a successful     *)
(* response, where it becomes the current time; no other step (failed        *)
(* response, transport failure, validation failure, cooldown rejection)      *)
(* changes it, so a submit is turned away by the cooldown only within        *)
(* 3000 ms of a success.                                                     *)
C13_LastGeneratedOnlyOnSuccess ==
    [][/\ lastGenerated' # lastGenerated
          => /\ Settles
             /\ fetched'.kind = "article"
             /\ ResponseOk(fetched')
             /\ generatedArticle' = fetched'.text
             /\ lastGenerated' = now
       /\ (error' = MsgCooldown /\ error # MsgCooldown)
          => lastGenerated > 0 /\ now - lastGenerated < 3000]_vars

\* a request follows a failed one at once, no generation having succeeded
C13_Witness ==
    /\ isLoading
    /\ inFlight # <<>>
    /\ fetched.kind \in {"error", "rejected", "unparseable"}
    /\ lastGenerated = 0
    /\ now = StartTime

(* C14: whenever isLoading is true and the request settles, isLoading        *)
(* becomes false again with no request in flight (nothing is retried), so    *)
(* the user can submit again.                                                *)
C14_LoadingEventuallyReset == isLoading ~> (~isLoading /\ inFlight = <<>>)

\* idle after a transport error, the submit button enabled
C14_Witness ==
    /\ fetched.kind = "rejected"
    /\ error = MsgFetchFailed
    /\ ~isLoading
    /\ inFlight = <<>>
    /\ SubmitEnabled

(* C15: in the step that handles a response, a response indicating failure   *)
(* (status outside 2xx) sets error to the response's error message, or to    *)
(* 'Failed to generate article' when it carries none, leaves generatedArticle*)
(* empty and lastGenerated unchanged; a response indicating success sets     *)
(* generatedArticle to the returned article and lastGenerated to now.        *)
C15_ResponseHandled ==
    [][(Settles /\ fetched'.kind # "rejected")
          => IF ResponseOk(fetched')
             THEN /\ generatedArticle' = fetched'.text
                  /\ lastGenerated' = now
             ELSE /\ error' = IF fetched'.kind = "error" /\ fetched'.text # <<>>
                              THEN fetched'.text
                              ELSE MsgGenerateFailed
                  /\ generatedArticle' = <<>>
                  /\ lastGenerated' = lastGenerated]_vars

(* C16: every request in flight carries a topic and key points that pass     *)
(* the four rules of validate() and a tone that is one of the five enum      *)
(* values.                                                                   *)
C16_OnlyValidRequestsSent ==
    \A i \in 1..Len(inFlight) :
        /\ PassesValidation(inFlight[i])
        /\ inFlight[i].tone \in ToneEnum

\* a request with a tone other than the initial one is in flight
C16_Witness ==
    /\ inFlight # <<>>
    /\ inFlight[1].tone = <<"c", "r", "e", "a", "t", "i", "v", "e">>
    /\ inFlight[1].topic = <<"A", "I", " ", "E", "t", "h", "i", "c", "s", " ", "&", " ", "S", "o", "c", "i", "e", "t", "y", "!">>

(* C17: for every form data, a submit turns on the first failing rule among  *)
(* topic non-empty after trimming, topic at most 200 characters, key points  *)
(* non-empty after trimming, key points at most 2000 characters: error is    *)
(* that rule's message and nothing is sent; when all four pass the request   *)
(* is sent, whatever the tone.                                               *)
C17_ValidateFirstFailingRule ==
    (isLoading \/ error # <<>>)
        => IF PassesValidation(formData)
           THEN isLoading /\ error = <<>> /\ inFlight = <<formData>>
           ELSE /\ ~isLoading
                /\ inFlight = <<>>
                /\ error = RuleMessage(FirstFailingRule(formData))

\* both texts at their limits and a tone outside the enum: validate() returned true
C17_Witness ==
    /\ isLoading
    /\ Len(formData.topic) = FormMaxTopicLen
    /\ Len(formData.keyPoints) = FormMaxKeyPointsLen
    /\ formData.tone \notin ToneEnum

(* C18: the text handed to the clipboard by copyToClipboard is the value of  *)
(* generatedArticle in the state where it is invoked, edits included, and    *)
(* the text delivered is the text handed over.                               *)
C18_CopiesDraftAsEdited ==
    [][/\ Len(clipboardPending') > Len(clipboardPending)
          => clipboardPending'[Len(clipboardPending')] = generatedArticle
       /\ clipboard' # clipboard => clipboard' = Head(clipboardPending)]_vars

\* the edited draft is in the clipboard, not the text the provider returned
C18_Witness ==
    /\ clipboard = <<"#", " ", "A", ",", " ", "e", "d", "i", "t", "e", "d">>
    /\ fetched.text = <<"#", " ", "A">>
    /\ copySuccess

\* the last three characters of a file name
Extension(name) == SubSeq(name, Len(name) - 2, Len(name))

\* a file name without its last three characters
Stem(name) == SubSeq(name, 1, Len(name) - 3)

NoAlnum(topic) == \A i \in 1..Len(topic) : ~IsAlnum(topic[i])

KeptLength(topic) == IF Len(topic) < 50 THEN Len(topic) ELSE 50

(* C19: for every topic, the saved file's name ends in ".md"; before it      *)
(* stands "article" when the topic is empty, and otherwise one character     *)
(* for each of the first 50 characters of the topic: the character in lower  *)
(* case when it is in [a-zA-Z0-9], a hyphen when it is not. The topic        *)
(* "AI Ethics & Society!" gives "ai-ethics---society-".                      *)
C19_FileNamedFromTopic ==
    download.saved
        => LET topic == formData.topic
               name == download.name
           IN  /\ Len(name) >= 3
               /\ Extension(name) = <<".", "m", "d">>
               /\ IF topic = <<>> THEN Stem(name) = <<"a", "r", "t", "i", "c", "l", "e">>
                  ELSE /\ Len(Stem(name)) = KeptLength(topic)
                       /\ \A i \in 1..KeptLength(topic) :
                              Stem(name)[i] = IF IsAlnum(topic[i])
                                              THEN ToLowerChar(topic[i])
                                              ELSE "-"
               /\ topic = <<"A", "I", " ", "E", "t", "h", "i", "c", "s", " ", "&", " ", "S", "o", "c", "i", "e", "t", "y", "!">> => Stem(name) = <<"a", "i", "-", "e", "t", "h", "i", "c", "s", "-", "-", "-", "s", "o", "c", "i", "e", "t", "y", "-">>

\* the example of the specification was saved
C19_Witness ==
    /\ download.saved
    /\ formData.topic = <<"A", "I", " ", "E", "t", "h", "i", "c", "s", " ", "&", " ", "S", "o", "c", "i", "e", "t", "y", "!">>
    /\ download.name = <<"a", "i", "-", "e", "t", "h", "i", "c", "s", "-", "-", "-", "s", "o", "c", "i", "e", "t", "y", "-", ".", "m", "d">>
    /\ download.content = generatedArticle

(* C20, as stated: for every topic that is empty or has no character in      *)
(* [a-zA-Z0-9], the saved file's name is "article.md".                       *)
C20_Original ==
    (download.saved /\ NoAlnum(formData.topic)) => download.name = <<"a", "r", "t", "i", "c", "l", "e", ".", "m", "d">>

(* C20: for the empty topic the saved file's name is "article.md"; for a     *)
(* topic that is not empty and has no character in [a-zA-Z0-9] it is one     *)
(* hyphen for each of the topic's first 50 characters, followed by ".md".    *)
C20_ArticleOnlyForEmptyTopic ==
    (download.saved /\ NoAlnum(formData.topic))
        => IF formData.topic = <<>> THEN download.name = <<"a", "r", "t", "i", "c", "l", "e", ".", "m", "d">>
           ELSE download.name = [i \in 1..KeptLength(formData.topic) |-> "-"] \o <<".", "m", "d">>

\* a topic of three symbols was saved under three hyphens
C20_Witness ==
    /\ download.saved
    /\ formData.topic = <<"!", "!", "!">>
    /\ download.name = <<"-", "-", "-", ".", "m", "d">>

(* C21: in every step in which a failure of copyToClipboard is handled,      *)
(* error becomes the copy failure message and copySuccess is false           *)
(* afterwards, also when an earlier copy succeeded less than 2000 ms before. *)
C21_FailedCopyLeavesFlagFalse ==
    [][ClipboardRejects => (error' = MsgCopyFailed /\ ~copySuccess')]_vars

\* the time at which the timer of the most recent successful copy is due
LatestCopyDue == CHOOSE due \in copyTimers : \A other \in copyTimers : other <= due

(* C22: after a successful copy, copySuccess is true until 2000 ms have      *)
(* passed since the most recent success, whatever copies came before it.     *)
C22_FlagHeldForFullPeriod ==
    (copyTimers # {} /\ now < LatestCopyDue) => copySuccess

\* a step of an export operation: a copy started or settled, a file saved or not
ExportStep ==
    copyToClipboard \/ ClipboardResolves \/ ClipboardRejects \/ downloadMarkdown \/ DownloadFails

(* C23: every step of copyToClipboard and downloadMarkdown, successful or    *)
(* not, leaves generatedArticle, formData, isLoading and lastGenerated       *)
(* unchanged; a failed one sets error and changes neither success flag.      *)
C23_ExportsLeaveDraftAlone ==
    [][/\ ExportStep => UNCHANGED <<generatedArticle, formData, isLoading, lastGenerated>>
       /\ (ClipboardRejects \/ DownloadFails)
          => /\ error' \in {MsgCopyFailed, MsgDownloadFailed}
             /\ UNCHANGED <<copySuccess, downloadSuccess>>]_vars

\* the edited draft was copied, a later save failed, and the draft is as edited
C23_Witness ==
    /\ error = MsgDownloadFailed
    /\ generatedArticle = <<"#", " ", "A", ",", " ", "e", "d", "i", "t", "e", "d">>
    /\ clipboard = <<"#", " ", "A", ",", " ", "e", "d", "i", "t", "e", "d">>

FieldNames == {"topic", "keyPoints", "tone"}

(* C24: handleInputChange(field, value) sets formData[field] to value,       *)
(* whatever the value (blank ones included), clears error, and leaves the    *)
(* other two fields, generatedArticle, isLoading, lastGenerated and the      *)
(* success flags unchanged.                                                  *)
C24_UpdateFieldSetsOneField ==
    [][\A field \in FieldNames :
          \A value \in TopicChoices \cup KeyPointsChoices \cup ToneEnum :
              handleInputChange(field, value)
                  => /\ formData'[field] = value
                     /\ \A other \in FieldNames \ {field} : formData'[other] = formData[other]
                     /\ error' = <<>>
                     /\ UNCHANGED <<generatedArticle, isLoading, lastGenerated, copySuccess,
                                    downloadSuccess>>]_vars

\* a blank topic was typed over a draft: the field holds it and no error is set
C24_Witness ==
    /\ formData.topic = <<" ", " ">>
    /\ formData.keyPoints = <<"e", "t", "h", "i", "c", "s", ",", " ", "s", "o", "c", "i", "e", "t", "y">>
    /\ error = <<>>
    /\ generatedArticle # <<>>
    /\ lastGenerated > 0

(* C27: a submit turned away by validate() or by the cooldown changes error  *)
(* and nothing else: no request is issued, and formData, generatedArticle,   *)
(* isLoading and lastGenerated stay as they are.                             *)
C27_RejectedSubmitOnlySetsError ==
    [][(handleSubmit /\ (~PassesValidation(formData) \/ now - lastGenerated < 3000))
          => /\ error' \in {MsgEnterTopic, MsgTopicTooLong, MsgEnterKeyPoint,
                            MsgKeyPointsTooLong, MsgCooldown}
             /\ UNCHANGED <<formData, generatedArticle, isLoading, lastGenerated, inFlight,
                            copySuccess, downloadSuccess>>]_vars

\* a submit was turned away by the cooldown and the draft is kept
C27_Witness ==
    /\ error = MsgCooldown
    /\ generatedArticle = <<"#", " ", "A", ",", " ", "e", "d", "i", "t", "e", "d">>
    /\ ~isLoading
    /\ inFlight = <<>>

(* C28: in every reachable state of the form controller, isLoading implies   *)
(* that generatedArticle is empty.                                           *)
C28_NoDraftWhileLoading == isLoading => generatedArticle = <<>>

\* a request is in flight after an earlier generation gave a draft
C28_Witness ==
    /\ isLoading
    /\ generatedArticle = <<>>
    /\ fetched.kind = "article"
    /\ lastGenerated > 0

SlugAlphabet ==
    {LowerLetters[i] : i \in 1..Len(LowerLetters)} \cup {Digits[i] : i \in 1..Len(Digits)}
        \cup {"-"}

(* C30: for every topic, the saved file's name is s followed by ".md",       *)
(* where s is "article" or 1 to 50 characters out of a-z, 0-9 and hyphen,    *)
(* and s has min(50, length of topic) characters when the topic is not empty.*)
C30_FileNameShape ==
    download.saved
        => LET s == Stem(download.name)
           IN  /\ Len(download.name) > 3
               /\ Extension(download.name) = <<".", "m", "d">>
               /\ \/ s = <<"a", "r", "t", "i", "c", "l", "e">>
                  \/ /\ Len(s) \in 1..50
                     /\ \A i \in 1..Len(s) : s[i] \in SlugAlphabet
               /\ formData.topic # <<>> => Len(s) = KeptLength(formData.topic)

\* a topic of 51 characters with capitals and blanks was saved under 50 characters
C30_Witness ==
    /\ download.saved
    /\ Len(formData.topic) = 51
    /\ Len(download.name) = 53

(* C29: while a generation request is in flight (isLoading is true), error   *)
(* is empty, whatever completes in the meantime, a clipboard write started   *)
(* before the submit included.                                               *)
C29_NoErrorWhileLoading == isLoading => error = <<>>

(* C26: every request that the form issues passes the five input checks of   *)
(* the endpoint: the endpoint never answers it with status 400, and the      *)
(* form never receives a response of status 400.                             *)
C26_ClientAsStrictAsServer ==
    /\ pc # "none" => (body.kind = "object" /\ AllRulesPass(body))
    /\ response.status # 400
    /\ fetched.status # 400

\* a topic of 200 characters with blanks around it went through the endpoint
C26_Witness ==
    /\ pc = "done"
    /\ response.status = 200
    /\ Len(body.topic.str) = 200
    /\ Trim(body.topic.str) # body.topic.str
    /\ Len(body.keyPoints.str) = 2000

\* the response an invocation gives to body b under credential key when its
\* request.json(), if it rejects, rejects with parseError, and its provider call,
\* if made, settles as result
SoloResponse(b, key, parseError, result) ==
    IF b.kind = "invalid" THEN MapError(Exception("parse", parseError))
    ELSE IF b.kind = "null" THEN MapError(Exception("destructure", DestructureErrorMessage))
    ELSE IF CheckRequest(b.topic, b.keyPoints, b.tone, key) # NoResponse
    THEN CheckRequest(b.topic, b.keyPoints, b.tone, key)
    ELSE IF result.kind = "rejected" THEN MapError(Exception("provider", result.message))
    ELSE IF ExtractThrows(result.content)
    THEN MapError(Exception("extract", ReadTypeErrorMessage))
    ELSE ArticleResponse(200, ArticleText(result.content))

\* what is local to the first invocation
firstLocals == <<pc, body, providerResult, thrown, response>>

(* C25: for every interleaving of two invocations, no step changes what is   *)
(* local to both (position, body, provider outcome, exception, response),    *)
(* the credential is never written, and the response of each invocation is   *)
(* the one that its own body, the credential and its own provider outcome    *)
(* give.                                                                     *)
C25_InvocationsIndependent ==
    [][/\ ~(firstLocals' # firstLocals /\ peer' # peer)
       /\ apiKey' = apiKey
       /\ pc' = "done"
          => response' = SoloResponse(body', apiKey', thrown'.message, providerResult')
       /\ peer'.pc = "done"
          => peer'.response = SoloResponse(peer'.body, apiKey', peer'.thrown.message,
                                           peer'.providerResult)]_vars

\* both invocations called the provider; the first failed after the second succeeded
C25_Witness ==
    /\ pc = "done"
    /\ peer.pc = "done"
    /\ providerCalls = 2
    /\ response.status = 429
    /\ peer.response.status = 200
    /\ Len(logged) = 1

====
